---- MODULE Spec2Model ----
(***************************************************************************)
(* Model of the campus-classifieds chatbot (apps/chatbot/views.py):        *)
(*   - the matching engine: search_products and                            *)
(*     get_personalized_recommendations over the product catalog;          *)
(*   - the request handler ChatbotAPIView.post and its tool-calling        *)
(*     protocol with the LLM provider.                                     *)
(*                                                                         *)
(* Python strings are sequences of one-character strings (literal pieces   *)
(* of a format string may be longer tokens), so that lower(), strip() and  *)
(* the substring tests are computed, not assumed.  Python's None is the    *)
(* value None below; an optional related row (category, seller) is a       *)
(* sequence of length 0 or 1.  The catalog is the Product table in the     *)
(* order the database returns its rows; a product's id is its position.    *)
(* Product.price and Product.condition are carried as fixed tokens.        *)
(***************************************************************************)
EXTENDS Integers, Sequences, FiniteSets, TLC

VARIABLES
    catalog,     \* the Product table (read-only)
    user,        \* request.user: location, university, faculty
    apiKey,      \* OPENAI_API_KEY is configured
    pc,          \* position of the handler: idle, llm1, llm2, done
    request_data,  \* request.data["message"] of the request being handled
    message,     \* validated_data["message"] of the request being handled
    should_provide_recommendations,
    tool_calls,  \* the list the for loop of post iterates over
    tcIndex,     \* position of that loop
    response_message,
    searched_products,  \* << >> for None, << list >> after a search
    response,    \* the Response returned by post
    events,      \* history: LLM calls and tool executions of this request
    call         \* a direct application of a matching-engine function

vars == << catalog, user, apiKey, pc, request_data, message, should_provide_recommendations,
           tool_calls, tcIndex, response_message, searched_products,
           response, events, call >>

---------------------------------------------------------------------------
(* Bounds of the model *)

MaxCatalog == 11

MaxRecCatalog == 6

MaxHandlerCatalog == 4

MaxToolCalls == 2

---------------------------------------------------------------------------
(* Python values and string operations *)

None == << "None" >>

Min(a, b) == IF a < b THEN a ELSE b

Take(s, n) == SubSeq(s, 1, Min(n, Len(s)))

Uppers == << "A", "B", "C", "D", "E", "F", "G", "H", "I", "J", "K", "L", "M",
             "N", "O", "P", "Q", "R", "S", "T", "U", "V", "W", "X", "Y", "Z" >>

Lowers == << "a", "b", "c", "d", "e", "f", "g", "h", "i", "j", "k", "l", "m",
             "n", "o", "p", "q", "r", "s", "t", "u", "v", "w", "x", "y", "z" >>

LowerChar(c) ==
    IF \E i \in DOMAIN Uppers : Uppers[i] = c
    THEN Lowers[CHOOSE i \in DOMAIN Uppers : Uppers[i] = c]
    ELSE c

\* str.lower()
Lower(s) == [i \in DOMAIN s |-> LowerChar(s[i])]

Whitespace == { " ", "\n", "\t" }

RECURSIVE LStrip(_)
LStrip(s) ==
    IF s # << >> /\ Head(s) \in Whitespace THEN LStrip(Tail(s)) ELSE s

RECURSIVE RStrip(_)
RStrip(s) ==
    IF s # << >> /\ s[Len(s)] \in Whitespace
    THEN RStrip(SubSeq(s, 1, Len(s) - 1))
    ELSE s

\* str.strip()
Strip(s) == RStrip(LStrip(s))

\* needle in haystack
Contains(haystack, needle) ==
    \E i \in 0 .. (Len(haystack) - Len(needle)) :
        SubSeq(haystack, i + 1, i + Len(needle)) = needle

\* the ORM lookup field__icontains=value: case-insensitive substring
IContains(field, value) == Contains(Lower(field), Lower(value))

\* x or ''
OrEmpty(x) == IF x = None THEN << >> ELSE x

\* x or default, for a string x
OrDefault(x, default) == IF x = << >> THEN default ELSE x

---------------------------------------------------------------------------
(* The product catalog *)

IsActive(p) == p.status = "active"

\* The row -> dict projection shared by both matching functions.
ResultOf(p) ==
    [ id          |-> p.id,
      title       |-> p.title,
      description |-> p.description,
      price       |-> p.price,
      condition   |-> p.condition,
      category    |-> IF p.category # << >> THEN p.category[1].name
                      ELSE << "No category" >>,
      seller      |-> IF p.seller # << >>
                      THEN [ id       |-> p.seller[1].id,
                             name     |-> OrDefault(p.seller[1].first_name,
                                                    p.seller[1].username),
                             username |-> p.seller[1].username ]
                      ELSE [ name |-> << "Unknown Seller" >> ] ]

Results(products) == [i \in DOMAIN products |-> ResultOf(products[i])]

Ids(products) == { products[i].id : i \in DOMAIN products }

---------------------------------------------------------------------------
(* search_products *)

SearchLimit == 10

\* query = query.lower().strip()
NormalizeQuery(query) == Strip(Lower(query))

MutTitleMatchesAnyStatus(query) ==
    Take(SelectSeq(catalog, LAMBDA p : IContains(p.title, query)), SearchLimit)

MutTitleMatchesUnlimited(query) ==
    SelectSeq(catalog, LAMBDA p : IsActive(p) /\ IContains(p.title, query))

\* Product.objects.filter(status='active').filter(title__icontains=query)[:10]
TitleMatches(query) ==
    Take(SelectSeq(catalog, LAMBDA p : IsActive(p) /\ IContains(p.title, query)),
         SearchLimit)

\* ... .filter(description__icontains=query)[:10]
DescriptionMatches(query) ==
    Take(SelectSeq(catalog,
                   LAMBDA p : IsActive(p) /\ IContains(p.description, query)),
         SearchLimit)

\* ... .filter(category__name__icontains=query)[:10]
CategoryMatches(query) ==
    Take(SelectSeq(catalog,
                   LAMBDA p : /\ IsActive(p)
                              /\ p.category # << >>
                              /\ IContains(p.category[1].name, query)),
         SearchLimit)

MutSearchRowsMerged(query) ==
    LET q == NormalizeQuery(query)
    IN  Take(TitleMatches(q) \o DescriptionMatches(q), SearchLimit)

\* The rows search_products selects: the first non-empty tier.
SearchRows(query) ==
    LET q == NormalizeQuery(query)
        t1 == TitleMatches(q)
        t2 == IF Len(t1) = 0 THEN DescriptionMatches(q) ELSE t1
        t3 == IF Len(t2) = 0 THEN CategoryMatches(q) ELSE t2
    IN  t3

search_products(query) == Results(SearchRows(query))

---------------------------------------------------------------------------
(* get_personalized_recommendations *)

RecLimit == 5

EnoughRecs == 3

WidenLimit == 3

\* getattr(user, f, '') or ''
ProfileOf(u) ==
    [ location   |-> OrEmpty(u.location),
      university |-> OrEmpty(u.university),
      faculty    |-> OrEmpty(u.faculty) ]

MutNoProfile(prof) == FALSE

\* if not location and not university and not faculty
NoProfile(prof) ==
    prof.location = << >> /\ prof.university = << >> /\ prof.faculty = << >>

SellerLocation(p, prof) ==
    p.seller # << >> /\ IContains(p.seller[1].location, prof.location)

SellerUniversity(p, prof) ==
    p.seller # << >> /\ IContains(p.seller[1].university, prof.university)

SellerFaculty(p, prof) ==
    p.seller # << >> /\ IContains(p.seller[1].faculty, prof.faculty)

\* pass 1: same location, university and faculty, [:5]
Pass1(prof) ==
    Take(SelectSeq(catalog,
                   LAMBDA p : /\ IsActive(p)
                              /\ SellerLocation(p, prof)
                              /\ SellerUniversity(p, prof)
                              /\ SellerFaculty(p, prof)),
         RecLimit)

MutUniversityProductsNoExclude(prof, products) ==
    Take(SelectSeq(catalog,
                   LAMBDA p : /\ IsActive(p)
                              /\ SellerUniversity(p, prof)
                              /\ SellerFaculty(p, prof)),
         WidenLimit)

\* pass 2: same university and faculty, not yet selected, [:3]
UniversityProducts(prof, products) ==
    Take(SelectSeq(catalog,
                   LAMBDA p : /\ IsActive(p)
                              /\ SellerUniversity(p, prof)
                              /\ SellerFaculty(p, prof)
                              /\ p.id \notin Ids(products)),
         WidenLimit)

\* pass 3: same university, not yet selected, [:3]
UniversityOnlyProducts(prof, products) ==
    Take(SelectSeq(catalog,
                   LAMBDA p : /\ IsActive(p)
                              /\ SellerUniversity(p, prof)
                              /\ p.id \notin Ids(products)),
         WidenLimit)

MutAfterPass2Replace(prof, products) ==
    IF Len(products) < EnoughRecs
    THEN Take(MutUniversityProductsNoExclude(prof, products), RecLimit)
    ELSE products

\* if len(products) < 3: products = (products + university_products)[:5]
AfterPass2(prof, products) ==
    IF Len(products) < EnoughRecs
    THEN Take(products \o UniversityProducts(prof, products), RecLimit)
    ELSE products

\* if len(products) < 3: products = (products + university_only_products)[:5]
AfterPass3(prof, products) ==
    IF Len(products) < EnoughRecs
    THEN Take(products \o UniversityOnlyProducts(prof, products), RecLimit)
    ELSE products

\* The rows get_personalized_recommendations selects.
RecRows(u) ==
    LET prof == ProfileOf(u)
    IN  IF NoProfile(prof)
        THEN << >>
        ELSE AfterPass3(prof, AfterPass2(prof, Pass1(prof)))

get_personalized_recommendations(u) == Results(RecRows(u))

IdSeq(products) == [i \in DOMAIN products |-> products[i].id]

\* What a run of get_personalized_recommendations does on the way: the
\* number of catalog queries it evaluates and the ids in products after
\* pass 1 and after pass 2.
RecTrace(u) ==
    LET prof == ProfileOf(u)
        p1 == Pass1(prof)
        a2 == AfterPass2(prof, p1)
    IN  IF NoProfile(prof)
        THEN [ queries |-> 0, pass1 |-> << >>, after2 |-> << >> ]
        ELSE [ queries |-> 1 + (IF Len(p1) < EnoughRecs THEN 1 ELSE 0)
                            + (IF Len(a2) < EnoughRecs THEN 1 ELSE 0),
               pass1 |-> IdSeq(p1), after2 |-> IdSeq(a2) ]

---------------------------------------------------------------------------
(* Inputs: catalogs, users, queries *)

Seller(loc, uni, fac) ==
    [ id |-> 7, first_name |-> << >>, username |-> << "s" >>,
      location |-> loc, university |-> uni, faculty |-> fac ]

Row(title, description, category, status, seller) ==
    [ title |-> title, description |-> description, category |-> category,
      status |-> status, seller |-> seller,
      price |-> "5.0", condition |-> "new" ]

Statuses == { "active", "inactive" }

\* Rows that differ in the text search_products looks at.
SearchKinds ==
    { Row(t, d, c, st, << Seller(<< "c" >>, << "c" >>, << "c" >>) >>) :
        t \in { << "A", "b" >>, << "c" >> },
        d \in { << "b" >>, << "c", "d" >> },
        c \in { << >>, << [name |-> << "D", "e" >>] >> },
        st \in Statuses }

SellerPlaces == { << "A", "b" >>, << "c" >> }

\* Rows that differ in the seller get_personalized_recommendations looks at.
RecKinds ==
    { Row(<< "c" >>, << "b" >>, << >>, "active", s) :
        s \in { << >> } \cup
              { << Seller(l, u, f) >> :
                    l \in SellerPlaces, u \in SellerPlaces, f \in SellerPlaces } }
    \cup
    { Row(<< "c" >>, << "b" >>, << >>, "inactive",
          << Seller(<< "A", "b" >>, << "A", "b" >>, << "A", "b" >>) >>) }

\* The table whose i-th row is the pattern's ((i-1) mod length)-th kind.
MkCatalog(pattern, n) ==
    [ i \in 1 .. n |->
        LET k == pattern[((i - 1) % Len(pattern)) + 1]
        IN  [ id |-> i, title |-> k.title, description |-> k.description,
              category |-> k.category, status |-> k.status,
              seller |-> k.seller, price |-> k.price,
              condition |-> k.condition ] ]

Patterns(kinds, lengths) == UNION { [1 .. k -> kinds] : k \in lengths }

SearchCatalogs ==
    { MkCatalog(pat, n) : pat \in Patterns(SearchKinds, {1, 2}),
                          n \in 0 .. MaxCatalog }

\* Sellers that a user at "a"/"a"/"a" meets in pass 1, 2, 3 and in no pass.
RecCoreKinds ==
    { Row(<< "c" >>, << "b" >>, << >>, "active", << s >>) :
        s \in { Seller(<< "A", "b" >>, << "A", "b" >>, << "A", "b" >>),
                Seller(<< "c" >>, << "A", "b" >>, << "A", "b" >>),
                Seller(<< "c" >>, << "A", "b" >>, << "c" >>),
                Seller(<< "c" >>, << "c" >>, << "c" >>) } }

RecCatalogs ==
    { MkCatalog(pat, n) : pat \in Patterns(RecKinds, {1, 2})
                                  \cup Patterns(RecCoreKinds, {3}),
                          n \in 0 .. MaxRecCatalog }

Queries ==
    { << >>, << "a" >>, << " ", "B" >>, << "c" >>, << "D" >>, << "e" >>,
      << "A", "B", " " >>, << "x" >> }

ProfileValues == { None, << >>, << "a" >> }

Users == [ location : ProfileValues, university : ProfileValues,
           faculty : ProfileValues ]

AnonymousUser == [ location |-> None, university |-> None, faculty |-> None ]

NoCall == [ fn |-> "none" ]

---------------------------------------------------------------------------
(* The matching engine applied directly to drawn inputs *)

HandlerAtRest ==
    /\ pc = "idle"
    /\ request_data = None
    /\ message = None
    /\ should_provide_recommendations = FALSE
    /\ tool_calls = << >>
    /\ tcIndex = 0
    /\ response_message = None
    /\ searched_products = << >>
    /\ response = [ status |-> 0 ]
    /\ events = << >>

InitMatch ==
    /\ catalog \in SearchCatalogs \cup RecCatalogs
    /\ user = AnonymousUser
    /\ apiKey = TRUE
    /\ HandlerAtRest
    /\ call = NoCall

ApplySearch(query) ==
    /\ call = NoCall
    /\ call' = [ fn |-> "search_products", query |-> query,
                 result |-> search_products(query) ]
    /\ UNCHANGED << catalog, user, apiKey, pc, request_data, message,
                    should_provide_recommendations, tool_calls, tcIndex,
                    response_message, searched_products, response, events >>

ApplyRecommend(u) ==
    /\ call = NoCall
    /\ call' = [ fn |-> "get_personalized_recommendations", user |-> u,
                 result |-> get_personalized_recommendations(u),
                 trace |-> RecTrace(u) ]
    /\ UNCHANGED << catalog, user, apiKey, pc, request_data, message,
                    should_provide_recommendations, tool_calls, tcIndex,
                    response_message, searched_products, response, events >>

NextMatch ==
    \/ \E query \in Queries : ApplySearch(query)
    \/ \E u \in Users : ApplyRecommend(u)

SpecMatch == InitMatch /\ [][NextMatch]_vars

---------------------------------------------------------------------------
(* ChatbotAPIView.post: inputs *)

Keywords ==
    << << "h", "e", "l", "l", "o" >>,
       << "h", "i" >>,
       << "w", "e", "l", "c", "o", "m", "e" >>,
       << "c", "h", "a", "t", "b", "o", "t" >>,
       << "r", "e", "c", "o", "m", "m", "e", "n", "d", "a", "t", "i", "o", "n" >>,
       << "s", "u", "g", "g", "e", "s", "t", "i", "o", "n" >> >>

ShortLen == 10

ShortcutShown == 3

\* message of the request body; None when the field is missing
Messages ==
    { << >>,
      << "H", "i" >>,
      << "r", "u", "l", "e", "r" >>,
      << "d", "o", " ", "y", "o", "u", " ", "h", "a", "v", "e", " ", "a", " ", "r", "u", "l", "e", "r", "?" >>,
      << "w", "h", "i", "c", "h", " ", "r", "u", "l", "e", "r", " ", "i", "s", " ", "b", "e", "s", "t" >>,
      << " ", " ", " ", "a", " ", "r", "u", "l", "e", "r", " ", " ", " " >>,
      << "A", "n", "y", " ", "S", "U", "G", "G", "E", "S", "T", "I", "O", "N", " ", "f", "o", "r", " ", "m", "e" >> }

RequestData == Messages \cup { None }

HandlerKinds ==
    { Row(<< "A", "b" >>, << "b" >>, << >>, "active",
          << Seller(<< "A", "b" >>, << "A", "b" >>, << "A", "b" >>) >>),
      Row(<< "A", "b" >>, << "b" >>, << >>, "inactive",
          << Seller(<< "A", "b" >>, << "A", "b" >>, << "A", "b" >>) >>),
      Row(<< "c" >>, << "c", "d" >>, << [name |-> << "D", "e" >>] >>, "active",
          << Seller(<< "c" >>, << "c" >>, << "c" >>) >>),
      Row(<< "c" >>, << "b" >>, << >>, "active", << >>) }

HandlerCatalogs ==
    { MkCatalog(pat, n) : pat \in Patterns(HandlerKinds, {1, 2}),
                          n \in 0 .. MaxHandlerCatalog }

HandlerUsers ==
    { AnonymousUser,
      [ location |-> << "a" >>, university |-> << >>, faculty |-> None ],
      [ location |-> << "a" >>, university |-> << "a" >>, faculty |-> << "a" >> ] }

\* tool_call.function.arguments: a JSON text, parsed or not parseable
ToolArguments ==
    { [ valid |-> FALSE ],
      [ valid |-> TRUE, has_query |-> FALSE ],
      [ valid |-> TRUE, has_query |-> TRUE, query |-> << "A", " " >> ] }

\* the calls the model may request: one of the two declared tools
ToolCallShapes ==
    { [ name |-> "search_products", arguments |-> a ] : a \in ToolArguments }
    \cup { [ name |-> "get_personalized_recommendations",
             arguments |-> [ valid |-> TRUE, has_query |-> FALSE ] ] }

\* tool_calls of a completion: each call carries its own id
ToolCallLists ==
    UNION { { [ i \in 1 .. k |-> [ id |-> i, name |-> shapes[i].name,
                                   arguments |-> shapes[i].arguments ] ] :
                shapes \in [1 .. k -> ToolCallShapes] } :
            k \in 0 .. MaxToolCalls }

Text == << "o", "k" >>

\* choices[0].message of the first completion (tools offered): content is
\* null only together with tool calls
FirstMessages ==
    { [ content |-> c, tool_calls |-> tcs ] :
        c \in { None, Text }, tcs \in ToolCallLists }
    \ { [ content |-> None, tool_calls |-> << >> ] }

\* choices[0].message of a follow-up completion (no tools offered)
FollowUpMessages ==
    { [ content |-> c, tool_calls |-> << >> ] : c \in { << >>, Text } }

\* what a call of client.chat.completions.create can come to: it raises
\* (non-2xx, authentication, network), it returns no choices, or it returns
Failures == { [ ok |-> FALSE, why |-> "api_error" ],
              [ ok |-> FALSE, why |-> "malformed" ] }

FirstOutcomes == Failures \cup { [ ok |-> TRUE, message |-> m ] : m \in FirstMessages }

FollowUpOutcomes ==
    Failures \cup { [ ok |-> TRUE, message |-> m ] : m \in FollowUpMessages }

---------------------------------------------------------------------------
(* ChatbotAPIView.post *)

\* ChatbotSerializer(data=request.data).is_valid(): a non-empty message
IsValid(data) == data # None /\ data # << >>

\* any(greeting in user_message.lower() ...) or len(user_message.strip()) < 10
ShouldProvide(user_message) ==
    \/ \E k \in DOMAIN Keywords : Contains(Lower(user_message), Keywords[k])
    \/ Len(Strip(user_message)) < ShortLen

MutMissingApiKey == FALSE

\* if not OPENAI_API_KEY
MissingApiKey == ~ apiKey

Truthy(x) == x # None /\ x # << >>

NoResponse == [ status |-> 0 ]

ValidationError == [ status |-> 400, errors |-> "serializer.errors" ]

MutServerError == [ status |-> 502, error |-> "internal_server_error" ]

MutUncaught == [ status |-> 0 ]

NotConfigured == [ status |-> 503, error |-> "OpenAI API key not configured" ]

ServerError == [ status |-> 500, error |-> "internal_server_error" ]

\* the first client.chat.completions.create(..., tools=tools)
FirstRequest == [ kind |-> "llm", tools |-> TRUE ]

\* the follow-up create(...): the messages after the system and user ones
FollowUpRequest(assistant, tool_call, content) ==
    [ kind |-> "llm", tools |-> FALSE, assistant |-> assistant,
      tool_call_id |-> tool_call.id, tool_content |-> content ]

\* an exception reaching the except clause of post
Raised(why) == [ kind |-> "raised", why |-> why ]

ToolRun(name, id) == [ kind |-> "tool", name |-> name, id |-> id ]

\* one line of the templated reply
ProductLine(product) ==
    << "We have " >> \o product.title \o << " available from " >>
      \o product.seller.name \o << " for $", product.price, " (" ,
                                   product.condition, " condition).", "\n" >>

RECURSIVE ProductLines(_)
ProductLines(products) ==
    IF products = << >> THEN << >>
    ELSE ProductLine(Head(products)) \o ProductLines(Tail(products))

MutShortcutResponseAll(u, personalized_products) ==
    IF Len(personalized_products) > 0
    THEN [ status |-> 200,
           reply |-> Strip(<< "For recommendations", ":", "\n" >>
                             \o ProductLines(personalized_products)),
           products |-> << personalized_products >> ]
    ELSE [ status |-> 200,
           reply |-> << "Hello! I'm here to help you find college supplies. What are you looking for today?" >>,
           products |-> << << >> >> ]

\* the Response of the recommendation branch
ShortcutResponse(u, personalized_products) ==
    IF Len(personalized_products) > 0
    THEN LET header ==
                 IF Truthy(u.location) \/ Truthy(u.university) \/ Truthy(u.faculty)
                 THEN << "For recommendations" >>
                        \o (IF Truthy(u.location)
                            THEN << " in " >> \o u.location ELSE << >>)
                        \o (IF Truthy(u.university)
                            THEN << " at " >> \o u.university ELSE << >>)
                        \o (IF Truthy(u.faculty)
                            THEN << ", " >> \o u.faculty ELSE << >>)
                        \o << ":", "\n" >>
                 ELSE << "Here are some recommendations for you:", "\n" >>
             shown == Take(personalized_products, ShortcutShown)
         IN  [ status |-> 200,
               reply |-> Strip(header \o ProductLines(shown)),
               products |-> << shown >> ]
    ELSE [ status |-> 200,
           reply |-> << "Hello! I'm here to help you find college supplies. What are you looking for today?" >>,
           products |-> << << >> >> ]

MutFinalResponseOmitEmpty(last_message, searched) ==
    [ status |-> 200, reply |-> last_message.content,
      products |-> IF searched # << >> /\ Len(searched[1]) > 0
                   THEN searched ELSE << >> ]

\* response_data: the reply is the last message's content; products only
\* after a search
FinalResponse(last_message, searched) ==
    [ status |-> 200, reply |-> last_message.content, products |-> searched ]

\* args.get("query", "")
QueryOf(arguments) == IF arguments.has_query THEN arguments.query ELSE << >>

\* The for loop over tool_calls from position i up to the next follow-up
\* call of the provider, an exception, or the end of the loop and the reply.
\* db: the catalog store answers the queries of this stretch of code;
\* a query of a store that does not answer raises.
RECURSIVE RunLoop(_, _, _, _, _, _)
RunLoop(tcs, i, last_message, searched, history, db) ==
    IF i > Len(tcs)
    THEN [ pc |-> "done", tcIndex |-> i, searched |-> searched,
           response |-> FinalResponse(last_message, searched),
           events |-> history ]
    ELSE IF tcs[i].name = "search_products"
    THEN IF ~ tcs[i].arguments.valid
         THEN [ pc |-> "done", tcIndex |-> i, searched |-> searched,
                response |-> ServerError,
                events |-> history \o << Raised("json") >> ]
         ELSE IF ~ db
         THEN [ pc |-> "done", tcIndex |-> i, searched |-> searched,
                response |-> ServerError,
                events |-> history \o << Raised("db") >> ]
         ELSE LET found == search_products(QueryOf(tcs[i].arguments))
              IN  [ pc |-> "llm2", tcIndex |-> i, searched |-> << found >>,
                    response |-> NoResponse,
                    events |-> history \o
                        << ToolRun("search_products", tcs[i].id),
                           FollowUpRequest(last_message, tcs[i], found) >> ]
    ELSE RunLoop(tcs, i + 1, last_message, searched, history, db)

MutPostKeyFirst(data) ==
    /\ pc = "idle"
    /\ request_data' = data
    /\ IF MissingApiKey
       THEN /\ response' = NotConfigured
            /\ pc' = "done"
            /\ UNCHANGED << message, should_provide_recommendations, events >>
       ELSE IF ~ IsValid(data)
       THEN /\ response' = ValidationError
            /\ pc' = "done"
            /\ UNCHANGED << message, should_provide_recommendations, events >>
       ELSE /\ message' = data
            /\ should_provide_recommendations' = ShouldProvide(data)
            /\ events' = << FirstRequest >>
            /\ pc' = "llm1"
            /\ UNCHANGED response
    /\ UNCHANGED << catalog, user, apiKey, tool_calls, tcIndex,
                    response_message, searched_products, call >>

\* post up to the first call of the provider
Post(data) ==
    /\ pc = "idle"
    /\ request_data' = data
    /\ IF ~ IsValid(data)
       THEN /\ response' = ValidationError
            /\ pc' = "done"
            /\ UNCHANGED << message, should_provide_recommendations, events >>
       ELSE /\ message' = data
            /\ should_provide_recommendations' = ShouldProvide(data)
            /\ IF MissingApiKey
               THEN /\ response' = NotConfigured
                    /\ pc' = "done"
                    /\ UNCHANGED events
               ELSE /\ events' = << FirstRequest >>
                    /\ pc' = "llm1"
                    /\ UNCHANGED response
    /\ UNCHANGED << catalog, user, apiKey, tool_calls, tcIndex,
                    response_message, searched_products, call >>

\* post from the return of the first call
FirstCompletion(outcome, db) ==
    /\ pc = "llm1"
    /\ IF ~ outcome.ok
       THEN /\ response' = ServerError
            /\ pc' = "done"
            /\ events' = events \o << Raised(outcome.why) >>
            /\ UNCHANGED << tool_calls, tcIndex, response_message,
                            searched_products >>
       ELSE IF should_provide_recommendations
       THEN /\ response_message' = outcome.message
            /\ IF ~ db /\ RecTrace(user).queries > 0
               THEN /\ response' = ServerError
                    /\ events' = events \o << Raised("db") >>
               ELSE /\ response' = ShortcutResponse(user,
                                       get_personalized_recommendations(user))
                    /\ events' = events \o
                           << ToolRun("get_personalized_recommendations", 0) >>
            /\ pc' = "done"
            /\ UNCHANGED << tool_calls, tcIndex, searched_products >>
       ELSE LET next == RunLoop(outcome.message.tool_calls, 1,
                                outcome.message, << >>, events, db)
            IN  /\ tool_calls' = outcome.message.tool_calls
                /\ response_message' = outcome.message
                /\ pc' = next.pc
                /\ tcIndex' = next.tcIndex
                /\ searched_products' = next.searched
                /\ response' = next.response
                /\ events' = next.events
    /\ UNCHANGED << catalog, user, apiKey, request_data, message,
                    should_provide_recommendations, call >>

\* post from the return of a follow-up call
FollowUpCompletion(outcome, db) ==
    /\ pc = "llm2"
    /\ IF ~ outcome.ok
       THEN /\ response' = ServerError
            /\ pc' = "done"
            /\ events' = events \o << Raised(outcome.why) >>
            /\ UNCHANGED << tcIndex, response_message, searched_products >>
       ELSE LET next == RunLoop(tool_calls, tcIndex + 1, outcome.message,
                                searched_products, events, db)
            IN  /\ response_message' = outcome.message
                /\ pc' = next.pc
                /\ tcIndex' = next.tcIndex
                /\ searched_products' = next.searched
                /\ response' = next.response
                /\ events' = next.events
    /\ UNCHANGED << catalog, user, apiKey, request_data, message,
                    should_provide_recommendations, tool_calls, call >>

\* the response is sent; the view waits for the next request
NextRequest ==
    /\ pc = "done"
    /\ pc' = "idle"
    /\ request_data' = None
    /\ message' = None
    /\ should_provide_recommendations' = FALSE
    /\ tool_calls' = << >>
    /\ tcIndex' = 0
    /\ response_message' = None
    /\ searched_products' = << >>
    /\ response' = NoResponse
    /\ events' = << >>
    /\ UNCHANGED << catalog, user, apiKey, call >>

Init ==
    /\ catalog \in HandlerCatalogs
    /\ user \in HandlerUsers
    /\ apiKey \in BOOLEAN
    /\ HandlerAtRest
    /\ call = NoCall

Next ==
    \/ \E data \in RequestData : Post(data)
    \/ \E outcome \in FirstOutcomes, db \in BOOLEAN :
           FirstCompletion(outcome, db)
    \/ \E outcome \in FollowUpOutcomes, db \in BOOLEAN :
           FollowUpCompletion(outcome, db)
    \/ NextRequest

Spec == Init /\ [][Next]_vars

---------------------------------------------------------------------------
(* Properties of the request handler, checked under Spec *)

LLMCalls == { i \in DOMAIN events : events[i].kind = "llm" }

ValidRequest == pc # "idle" /\ message # None

DelegatedReply ==
    /\ pc = "done"
    /\ message # None
    /\ ~ should_provide_recommendations
    /\ response.status = 200

ProviderFailed ==
    \E i \in DOMAIN events :
        events[i].kind = "raised" /\ events[i].why \in { "api_error", "malformed" }

\* C1: a valid request whose message meets the short-circuit condition
\* (a keyword, or fewer than 10 characters once trimmed) is answered from
\* get_personalized_recommendations and never calls the LLM provider.
C1_ShortcutBypassesLLM ==
    (ValidRequest /\ ShouldProvide(message)) =>
        /\ LLMCalls = { }
        /\ pc = "done" =>
             \E i \in DOMAIN events :
                 events[i] = ToolRun("get_personalized_recommendations", 0)

\* C3 as stated: when a call of the LLM provider fails, the response has
\* status 502.
C3_UpstreamFailureIs502 ==
    (pc = "done" /\ ProviderFailed) => response.status = 502

\* C3 amended: when a call of the LLM provider fails (it raises, or its
\* response has no choices), the response is the generic 500 response.
C3_UpstreamFailureIs500 ==
    (pc = "done" /\ ProviderFailed) =>
        response.status = 500 /\ response.error = "internal_server_error"

C3_Witness ==
    /\ pc = "done"
    /\ response.status = 500
    /\ \E i \in DOMAIN events :
           events[i].kind = "raised" /\ events[i].why = "api_error"
    /\ Cardinality(LLMCalls) = 2

\* C4: no request makes more than two LLM round-trips.
C4_AtMostTwoRoundTrips == Cardinality(LLMCalls) <= 2

\* C5: on the delegated path, every tool call of the first LLM response (to
\* either declared tool) is executed and followed by an LLM call that carries
\* its result, before the reply is emitted.
C5_ToolCallsAnswered ==
    DelegatedReply =>
        \A t \in DOMAIN tool_calls :
            \E j \in DOMAIN events, k \in DOMAIN events :
                /\ j < k
                /\ events[j] = ToolRun(tool_calls[t].name, tool_calls[t].id)
                /\ events[k].kind = "llm"
                /\ ~ events[k].tools
                /\ events[k].tool_call_id = tool_calls[t].id

\* C6: the reply of every 200 response is a string, never null.
C6_ReplyIsString == response.status = 200 => response.reply # None

\* C7: with the provider API key missing, a valid request ends at once with
\* the 503 configuration-error response and calls the LLM provider never.
C7_MissingKeyIs503 ==
    (ValidRequest /\ ~ apiKey) =>
        /\ pc = "done"
        /\ response = NotConfigured
        /\ response.status = 503
        /\ events = << >>

C7_Witness ==
    /\ pc = "done"
    /\ message # None
    /\ ~ ShouldProvide(message)
    /\ ~ apiKey
    /\ response.status = 503

---------------------------------------------------------------------------
(* Properties of the matching engine, checked under SpecMatch *)

Rows == { catalog[i] : i \in DOMAIN catalog }

\* the catalog rows behind the results of the call
Surfaced == { catalog[call.result[i].id] : i \in DOMAIN call.result }

\* C2: every product get_personalized_recommendations returns has a seller
\* that matches the user on at least one of the user's non-empty profile
\* fields (location, university, faculty).
C2_OnlyRelatedProducts ==
    call.fn = "get_personalized_recommendations" =>
        LET prof == ProfileOf(call.user)
        IN  \A p \in Surfaced :
                /\ p.seller # << >>
                /\ \/ /\ prof.location # << >>
                      /\ Contains(Lower(p.seller[1].location), Lower(prof.location))
                   \/ /\ prof.university # << >>
                      /\ Contains(Lower(p.seller[1].university),
                                  Lower(prof.university))
                   \/ /\ prof.faculty # << >>
                      /\ Contains(Lower(p.seller[1].faculty), Lower(prof.faculty))

\* C8: every product in a result of search_products or of
\* get_personalized_recommendations has status active.
C8_OnlyActiveSurfaced ==
    call.fn # "none" => \A p \in Surfaced : p.status = "active"

C8_Witness ==
    /\ call.fn = "search_products"
    /\ Len(call.result) > 0
    /\ \E p \in Rows :
           /\ p.status # "active"
           /\ Contains(Lower(p.title), Strip(Lower(call.query)))

\* C9: search_products returns results of one tier only, the first
\* non-empty of title, description, category: a title match among the active
\* products makes every result a title match; without one, a description
\* match among them makes every result a description match.
C9_OneTier ==
    call.fn = "search_products" =>
        LET q == Strip(Lower(call.query))
            TitleHit(p) == p.status = "active" /\ Contains(Lower(p.title), q)
            DescriptionHit(p) ==
                p.status = "active" /\ Contains(Lower(p.description), q)
        IN  /\ (\E p \in Rows : TitleHit(p)) =>
                   /\ Len(call.result) > 0
                   /\ \A p \in Surfaced : TitleHit(p)
            /\ ((\A p \in Rows : ~ TitleHit(p)) /\ (\E p \in Rows : DescriptionHit(p))) =>
                   /\ Len(call.result) > 0
                   /\ \A p \in Surfaced : DescriptionHit(p)

C9_Witness ==
    /\ call.fn = "search_products"
    /\ Len(call.result) > 0
    /\ LET q == Strip(Lower(call.query))
       IN  /\ \E p \in Rows : p.status = "active" /\ Contains(Lower(p.title), q)
           /\ \E p \in Rows : /\ p.status = "active"
                              /\ Contains(Lower(p.description), q)
                              /\ ~ Contains(Lower(p.title), q)

\* C10: search_products returns at most 10 results and
\* get_personalized_recommendations at most 5.
C10_ResultLimits ==
    /\ call.fn = "search_products" => Len(call.result) <= 10
    /\ call.fn = "get_personalized_recommendations" => Len(call.result) <= 5

C10_Witness ==
    /\ call.fn = "search_products"
    /\ Len(call.result) = 10
    /\ Len(SelectSeq(catalog, LAMBDA p : p.status = "active")) > 10

RecCall == call.fn = "get_personalized_recommendations"

ResultIds == [i \in DOMAIN call.result |-> call.result[i].id]

IsPrefix(s, t) == Len(s) <= Len(t) /\ SubSeq(t, 1, Len(s)) = s

\* C11: the list get_personalized_recommendations returns holds no product
\* id twice.
C11_NoDuplicateIds ==
    RecCall =>
        \A i \in DOMAIN call.result, j \in DOMAIN call.result :
            i # j => call.result[i].id # call.result[j].id

C11_Witness ==
    /\ RecCall
    /\ Len(call.trace.pass1) > 0
    /\ Len(call.trace.after2) > Len(call.trace.pass1)
    /\ Len(call.result) > Len(call.trace.after2)

\* C13: a user whose location, university and faculty are all empty or
\* missing gets an empty sequence, and the catalog is not queried.
C13_NoProfileNoResults ==
    (/\ RecCall
     /\ call.user.location \in { None, << >> }
     /\ call.user.university \in { None, << >> }
     /\ call.user.faculty \in { None, << >> }) =>
        call.result = << >> /\ call.trace.queries = 0

C13_Witness ==
    /\ RecCall
    /\ call.user.location = None
    /\ call.user.university = << >>
    /\ call.user.faculty = << >>
    /\ call.result = << >>
    /\ \E p \in Rows : p.status = "active" /\ p.seller # << >>

\* C17: the widening passes extend and never replace: the pass-1 products
\* are a prefix of the returned list; pass 2 adds nothing unless pass 1
\* gave fewer than 3; pass 3 adds nothing unless the combined list still has
\* fewer than 3; each widening pass adds at most 3 products.
C17_WideningExtends ==
    RecCall =>
        LET p1 == call.trace.pass1
            a2 == call.trace.after2
        IN  /\ IsPrefix(p1, a2)
            /\ IsPrefix(a2, ResultIds)
            /\ IsPrefix(p1, ResultIds)
            /\ Len(p1) >= 3 => a2 = p1
            /\ Len(a2) >= 3 => ResultIds = a2
            /\ Len(a2) - Len(p1) <= 3
            /\ Len(ResultIds) - Len(a2) <= 3

C17_Witness ==
    /\ RecCall
    /\ Len(call.trace.pass1) = 2
    /\ Len(call.trace.after2) > 2
    /\ Len(call.result) = Len(call.trace.after2)
    /\ call.trace.pass1[1] > call.trace.after2[3]

---------------------------------------------------------------------------
(* Further properties of the request handler, checked under Spec *)

SearchRuns ==
    { i \in DOMAIN events :
        events[i].kind = "tool" /\ events[i].name = "search_products" }

FollowUps == { i \in DOMAIN events : events[i].kind = "llm" /\ ~ events[i].tools }

RaisedEvents == { i \in DOMAIN events : events[i].kind = "raised" }

ShortcutReply ==
    /\ pc = "done"
    /\ message # None
    /\ should_provide_recommendations
    /\ response.status = 200

Occurrences(s, token) == Cardinality({ i \in DOMAIN s : s[i] = token })

\* C12: on the delegated path the response has a products field exactly
\* when a search_products tool call was executed; it is then the list that
\* search returned, present also when empty; with plain content and no tool
\* call it is absent.
C12_ProductsIffSearched ==
    DelegatedReply =>
        /\ (response.products # << >>) <=> (SearchRuns # { })
        /\ SearchRuns # { } =>
               /\ events[Len(events)].kind = "llm"
               /\ response.products = << events[Len(events)].tool_content >>
        /\ tool_calls = << >> => response.products = << >>

C12_Witness ==
    /\ DelegatedReply
    /\ SearchRuns # { }
    /\ response.products = << << >> >>
    /\ \E p \in Rows : p.status = "active"

\* C14: a request whose payload fails validation ends with the 400
\* validation-error response, with no LLM call and no catalog query,
\* whether or not the API key is configured.
C14_InvalidIs400 ==
    (pc # "idle" /\ ~ IsValid(request_data)) =>
        /\ pc = "done"
        /\ response = ValidationError
        /\ response.status = 400
        /\ events = << >>

C14_Witness ==
    /\ pc = "done"
    /\ request_data = << >>
    /\ ~ apiKey
    /\ response.status = 400

C16_ShortcutShowsThree ==
    ShortcutReply =>
        LET recs == get_personalized_recommendations(user)
            n == IF Len(recs) < 3 THEN Len(recs) ELSE 3
        IN  /\ response.products # << >>
            /\ Len(response.products[1]) <= 3
            /\ response.products[1] = SubSeq(recs, 1, n)
            /\ recs = << >> =>
                   /\ response.products = << << >> >>
                   /\ Len(response.reply) = 1
                   /\ Occurrences(response.reply, "We have ") = 0
            /\ recs # << >> =>
                   /\ Occurrences(response.reply, "We have ") = n
                   /\ Occurrences(response.reply, "\n") = n

C16_Witness ==
    /\ ShortcutReply
    /\ Len(get_personalized_recommendations(user)) > 3
    /\ Len(response.products[1]) = 3

\* C18: every follow-up LLM call that supplies a tool result carries, right
\* before the tool message, the assistant message that issued the tool call
\* the tool message answers.
C18_ToolMessageFollowsItsCall ==
    \A k \in FollowUps :
        \E t \in DOMAIN events[k].assistant.tool_calls :
            events[k].assistant.tool_calls[t].id = events[k].tool_call_id

====
